---- MODULE Spec2Model ----
(***************************************************************************)
(* SightCeption: a listener node (circuit/SightCeption/src/main.cpp) that  *)
(* runs a wake-word classifier and publishes a signal, and a camera node   *)
(* (circuit/sightception-cam/src/main.cpp) that captures a frame on that   *)
(* signal and publishes it in chunks over MQTT.  The listener also serves  *)
(* web requests, one of which records a second of audio to a file.         *)
(*                                                                         *)
(* Each node is a single-threaded Arduino loop().  A pass of loop() is     *)
(* modelled as a sequence of steps (camPc, lisPc), one per statement group *)
(* of loop(); the functions a step calls are part of the step.             *)
(*                                                                         *)
(* millis() and the image counter are 32-bit unsigned in the code.  Every  *)
(* run of the model starts at boot (millis() = 0, imageCounter = 0) and    *)
(* stays far below 2^32, so the arithmetic is written without the modulus. *)
(***************************************************************************)
EXTENDS Integers, Sequences, FiniteSets, TLC

VARIABLES
    \* ---- camera node (sightception-cam/src/main.cpp)
    camPc,            \* position in loop(): "top", "poll", "capture", "send", "timeout"
    camConnected,     \* client.connected()
    camSubs,          \* topics the broker holds a subscription for
    imageRequested,   \* bool imageRequested            (line 44)
    lastSignalTime,   \* unsigned long lastSignalTime   (line 45)
    imageCounter,     \* static uint32_t imageCounter   (line 47)
    camMillis,        \* millis() on the camera node
    camSent,          \* history: the publish calls of the current loop() pass, in order
    camRuns,          \* history: per call of captureAndSendImage so far, the image id
                      \*          of the session it started, or NoPart if it started none
    camFrame,         \* history: the frame the transfer session of this pass was given
    camIn,            \* history: the message client.loop() has just handed to
                      \*          callback(), or NoMsg; forgotten once loop() has
                      \*          tested the flag at line 282
    camFb,            \* history: the esp_camera_fb_get / esp_camera_fb_return calls of
                      \*          the captureAndSendImage call of this pass, in order
    camTriggers,      \* history: the messages callback() has accepted in this pass
    camPolled,        \* history: the messages the client.loop() call of this pass
                      \*          has handed to callback()
    \* ---- listener node (SightCeption/src/main.cpp)
    lisPc,            \* position in loop(): "web", "mqtt", "button", "clear",
                      \*   "acquire", "classify" (inside performWakewordDetection), "expiry"
    lisRet,           \* where performWakewordDetection returns to
    lisConnected,     \* client.connected()
    mqttConnected,    \* bool mqttConnected                (line 19)
    lastMqttAttempt,  \* unsigned long lastMqttAttempt     (line 20)
    wakewordDetected, \* bool wakewordDetected             (line 50)
    lastDetectionTime,\* unsigned long lastDetectionTime   (line 51)
    buttonPressed,    \* volatile bool buttonPressed       (line 56)
    lastButtonPress,  \* unsigned long lastButtonPress     (line 57)
    totalSamples,     \* int totalSamples of performWakewordDetection (line 239)
    bytesRead,        \* size_t bytesRead of performWakewordDetection (line 238):
                      \*   what the latest i2s_read of the cycle delivered
    emptyReads,       \* history: the reads of the cycle under way that timed out
                      \*          without a byte
    lisTry,           \* history: when the latest client.connect was called, what it
                      \*          returned, and how many were called in this pass
    lisMillis,        \* millis() on the listener node
    lisSent,          \* history: the publish calls since the latest detection cycle
                      \*          began (or since the pass began), in order
    lisCycle,         \* history: how the latest detection cycle of this pass ended
    lisCycles,        \* history: the number of detection cycles started so far
    isrAccepted,      \* history: the calls of buttonISR so far that set the flag,
                      \*          counted up to the number of cycles a run can start
    buttonCycles,     \* history: the detection cycles started from line 802 so far
    \* ---- the label scan of performWakewordDetection on its own
    scanIn,           \* a classifier result
    scanOut,          \* what the scan made of it
    \* ---- the listener's storage (LittleFS) and its /record handler
    fsTotal,          \* LittleFS.totalBytes()
    fsOther,          \* the bytes other files than the recording use
    recFile,          \* the file /record.wav: NoFile, or the bytes of header and of
                      \*   audio data it holds
    recLast,          \* history: the latest /record request: the status sent, the
                      \*          fault met, the bytes it wrote to the file, and the
                      \*          file as it was before
    \* ---- the listener's setup()
    boot              \* what setup() was given: the classifier's frequency and
                      \*   sample count, and how malloc and LittleFS.begin ended

camVars == <<camPc, camConnected, camSubs, imageRequested, lastSignalTime,
             imageCounter, camMillis, camSent, camRuns, camFrame, camIn, camFb,
             camTriggers, camPolled>>

lisVars == <<lisPc, lisRet, lisConnected, mqttConnected, lastMqttAttempt,
             wakewordDetected, lastDetectionTime, buttonPressed, lastButtonPress,
             totalSamples, bytesRead, emptyReads, lisTry, lisMillis, lisSent, lisCycle,
             lisCycles>>

scanVars == <<scanIn, scanOut>>

recVars == <<fsTotal, fsOther, recFile, recLast>>

bootVars == <<boot>>

pressVars == <<isrAccepted, buttonCycles>>

vars == <<camVars, lisVars, scanVars, recVars, bootVars, pressVars>>

----------------------------------------------------------------------------
(* Bounds of the model *)

\* calls of captureAndSendImage per run
MaxCaptures == 2
\* failed connect attempts inside one call of reconnect()
MaxConnectFails == 2
\* no step starts after this time on the camera node
MaxCamMillis == 12000
\* detection cycles per run of the listener
MaxCycles == 2
\* no tick of the listener's clock goes beyond this time
MaxLisMillis == 6500
\* samples of the classifier's window (EI_CLASSIFIER_RAW_SAMPLE_COUNT)
WindowSamples == 3
\* reads of one detection cycle that time out without a byte
MaxEmptyReads == 2
\* messages one call of client.loop() hands to callback()
MaxPerPoll == 2

----------------------------------------------------------------------------
(* Program constants of the camera node *)

publish_topic == "hydroshiba/esp32/cam_image"
subscribe_topic == "sightception/device/sightception-esp32-001/signal"
command_topic == "sightception/camera/command"
logs_topic == "sightception/logs/esp32cam"
\* a topic the node knows nothing about
other_topic == "hydroshiba/test"

SIGNAL_TIMEOUT == 10000
CHUNK_SIZE == 2048
\* delay(5000) after a failed connect attempt in reconnect()
RECONNECT_DELAY == 5000
\* three warm-up frames, each followed by delay(200)
WARMUP_FRAMES == 3
WARMUP_DELAY == 200

----------------------------------------------------------------------------
(* Frames the camera peripheral can deliver.  A frame is (len, buf); byte  *)
(* i of the buffer is (i * 7) % 251, a pattern whose period does not       *)
(* divide the chunk size, so that a lost, repeated or misplaced slice      *)
(* changes the concatenation.                                              *)

FrameSizes == {0, 1, 2047, 2048, 2049, 5000}

FrameOf(n) == [len |-> n, buf |-> [i \in 1..n |-> (i * 7) % 251]]

Frames == {FrameOf(n) : n \in FrameSizes}

\* esp_camera_fb_get() returned NULL
NullFrame == [len |-> 0 - 1, buf |-> <<>>]

----------------------------------------------------------------------------
(* Messages.  A topic <base>/<image_id>/<leaf>[/<idx>] is the record of    *)
(* its parts; a publish call is (topic, payload, ok) where ok is what      *)
(* client.publish returned.  The code discards the result of the publishes *)
(* on the log topic, and the model does not draw one for them.             *)

NoPart == 0 - 1

StartTopic(imageId) == [base |-> publish_topic, id |-> imageId, leaf |-> "start", idx |-> NoPart]

ChunkTopic(imageId, idx) == [base |-> publish_topic, id |-> imageId, leaf |-> "chunk", idx |-> idx]

EndTopic(imageId) == [base |-> publish_topic, id |-> imageId, leaf |-> "end", idx |-> NoPart]

LogTopic == [base |-> logs_topic, id |-> NoPart, leaf |-> "", idx |-> NoPart]

Publish(topic, payload, ok) == [topic |-> topic, payload |-> payload, ok |-> ok]

LogPublish(text) == [topic |-> LogTopic, payload |-> text]

----------------------------------------------------------------------------
(* captureAndSendImage: the chunked transfer *)

\* Mutant: the division without the round-up.
TotalChunksFloor(len) == len \div CHUNK_SIZE

\* const size_t totalChunks = (fb->len + CHUNK_SIZE - 1) / CHUNK_SIZE;
TotalChunks(len) == (len + CHUNK_SIZE - 1) \div CHUNK_SIZE

\* const size_t toSend = remaining < CHUNK_SIZE ? remaining : CHUNK_SIZE;
ToSend(remaining) == IF remaining < CHUNK_SIZE THEN remaining ELSE CHUNK_SIZE

\* Mutant: the offset is not advanced.
NextOffsetStuck(offset, toSend) == offset

\* offset += toSend;
NextOffset(offset, toSend) == offset + toSend

\* Mutant: the counter is not incremented.
NextImageIdSame(counter) == counter

\* imageCounter++;
NextImageId(counter) == counter + 1

\* Mutant: the loop without the break after a failed chunk publish.
RECURSIVE ChunkLoopNoBreak(_, _, _, _, _, _, _)
ChunkLoopNoBreak(fb, imageId, totalChunks, idx, offset, oks, k) ==
    IF idx >= totalChunks
    THEN <<>>
    ELSE LET remaining == fb.len - offset
             toSend == ToSend(remaining)
             chunk == Publish(ChunkTopic(imageId, idx),
                              SubSeq(fb.buf, offset + 1, offset + toSend), oks[k])
         IN  (IF ~oks[k]
              THEN <<chunk, LogPublish("esp32cam: chunk publish failed")>>
              ELSE <<chunk>>)
             \o ChunkLoopNoBreak(fb, imageId, totalChunks, idx + 1,
                                 NextOffset(offset, toSend), oks, k + 1)

\* The for loop over the chunks, from index idx at byte offset `offset`.
\* oks[k] is what the k-th publish call of the session returns; the chunk
\* at idx is call number k.  A failed chunk publish logs and breaks.
RECURSIVE ChunkLoop(_, _, _, _, _, _, _)
ChunkLoop(fb, imageId, totalChunks, idx, offset, oks, k) ==
    IF idx >= totalChunks
    THEN <<>>
    ELSE LET remaining == fb.len - offset
             toSend == ToSend(remaining)
             chunk == Publish(ChunkTopic(imageId, idx),
                              SubSeq(fb.buf, offset + 1, offset + toSend), oks[k])
         IN  IF ~oks[k]
             THEN <<chunk, LogPublish("esp32cam: chunk publish failed")>>
             ELSE <<chunk>> \o ChunkLoop(fb, imageId, totalChunks, idx + 1,
                                         NextOffset(offset, toSend), oks, k + 1)

\* The number of publish calls on the image topics among msgs.
ImageCalls(msgs) == Cardinality({i \in 1..Len(msgs) : msgs[i].topic.base = publish_topic})

\* Mutant: the end message is published before the chunk loop.
PublishSessionEndFirst(fb, imageId, oks) ==
    LET totalChunks == TotalChunks(fb.len)
        start == Publish(StartTopic(imageId),
                         [image_id |-> imageId, size |-> fb.len, total |-> totalChunks], oks[1])
        chunks == ChunkLoop(fb, imageId, totalChunks, 0, 0, oks, 3)
    IN  <<start, Publish(EndTopic(imageId), [image_id |-> imageId], oks[2])>> \o chunks \o
        <<LogPublish("esp32cam: image published (chunked)")>>

\* Lines 153-195: start message, chunk loop, end message, log message.
PublishSession(fb, imageId, oks) ==
    LET totalChunks == TotalChunks(fb.len)
        start == Publish(StartTopic(imageId),
                         [image_id |-> imageId, size |-> fb.len, total |-> totalChunks], oks[1])
        chunks == ChunkLoop(fb, imageId, totalChunks, 0, 0, oks, 2)
        kEnd == 2 + ImageCalls(chunks)
    IN  <<start>> \o chunks \o
        <<Publish(EndTopic(imageId), [image_id |-> imageId], oks[kEnd]),
          LogPublish("esp32cam: image published (chunked)")>>

\* The most publish calls on the image topics one session makes.
MaxFrameLen == CHOOSE n \in FrameSizes : \A m \in FrameSizes : m <= n

MaxPublishes == 2 + TotalChunks(MaxFrameLen)

\* What client.publish may return over the calls of one session.
PublishResults == [1..MaxPublishes -> BOOLEAN]

\* The same for a session on frame fb, which makes at most
\* 2 + TotalChunks(fb.len) calls: the results past them are never asked for.
PublishResultsFor(fb) ==
    {oks \in PublishResults : \A k \in 1..MaxPublishes : k > 2 + TotalChunks(fb.len) => oks[k]}

----------------------------------------------------------------------------
(* Inbound messages.  A payload is the sequence of the tokens it is made   *)
(* of; String.indexOf(token) is the position of the token, or -1.  The     *)
(* three texts callback() searches for cannot overlap one another, so any  *)
(* payload splits into their occurrences and the text between them.        *)

IndexOf(message, token) ==
    IF \E i \in 1..Len(message) : message[i] = token
    THEN (CHOOSE i \in 1..Len(message) :
             message[i] = token /\ \A j \in 1..(i - 1) : message[j] # token) - 1
    ELSE 0 - 1

InboundTopics == {subscribe_topic, command_topic, other_topic}

\* The first is the message the listener publishes (SignalPayload below).
InboundPayloads ==
    { <<"{", "device_id", ":", "sightception-esp32-001", ",", "timestamp", ":", "#", "}">>,
      <<"device_id", "timestamp", "garbage">>,
      <<"{", "device_id", ":", "sightception-esp32-001", "}">>,
      <<"timestamp">>,
      <<"{", "action", ":", "capture_once", "}">>,
      <<"capture_once", "timestamp", "=", "device_id">>,
      <<>> }

\* No message was handed to callback().
NoMsg == [topic |-> "", message |-> <<>>]

\* Mutant: one of the two field names is enough.
AcceptedEither(topic, message) ==
    IF topic = subscribe_topic
    THEN IndexOf(message, "device_id") # 0 - 1 \/ IndexOf(message, "timestamp") # 0 - 1
    ELSE IF topic = command_topic
         THEN IndexOf(message, "capture_once") # 0 - 1
         ELSE FALSE

\* Mutant: the token is looked for on every topic but the wake-event topic.
AcceptedAnyTopic(topic, message) ==
    IF topic = subscribe_topic
    THEN IndexOf(message, "device_id") # 0 - 1 /\ IndexOf(message, "timestamp") # 0 - 1
    ELSE IndexOf(message, "capture_once") # 0 - 1

\* callback() accepts the message: lines 98-118.
Accepted(topic, message) ==
    IF topic = subscribe_topic
    THEN IndexOf(message, "device_id") # 0 - 1 /\ IndexOf(message, "timestamp") # 0 - 1
    ELSE IF topic = command_topic
         THEN IndexOf(message, "capture_once") # 0 - 1
         ELSE FALSE

\* The log line callback() publishes on acceptance.
AcceptLog(topic) ==
    IF topic = subscribe_topic
    THEN LogPublish("esp32cam: wakeword signal -> capture")
    ELSE LogPublish("esp32cam: command capture_once")

\* Mutant: an accepted message sets the flag and leaves the timestamp.
CallbackKeepsTime(topic, message) ==
    /\ camIn' = [topic |-> topic, message |-> message]
    /\ IF Accepted(topic, message)
       THEN /\ imageRequested' = TRUE
            /\ camSent' = Append(camSent, AcceptLog(topic))
            /\ camTriggers' = camTriggers + 1
            /\ UNCHANGED lastSignalTime
       ELSE UNCHANGED <<imageRequested, lastSignalTime, camSent, camTriggers>>

\* void callback(char* topic, byte* payload, unsigned int length)
Callback(topic, message) ==
    /\ camIn' = [topic |-> topic, message |-> message]
    /\ IF Accepted(topic, message)
       THEN /\ imageRequested' = TRUE
            /\ lastSignalTime' = camMillis
            /\ camSent' = Append(camSent, AcceptLog(topic))
            /\ camTriggers' = camTriggers + 1
       ELSE UNCHANGED <<imageRequested, lastSignalTime, camSent, camTriggers>>

----------------------------------------------------------------------------
(* The camera node's loop() *)

\* void reconnect(): blocks until client.connect succeeds, delay(5000)
\* after each failure; then the two subscribe calls and the log line.
Reconnect ==
    \E fails \in 0..MaxConnectFails, s1 \in BOOLEAN, s2 \in BOOLEAN :
        /\ camMillis + fails * RECONNECT_DELAY <= MaxCamMillis
        /\ camMillis' = camMillis + fails * RECONNECT_DELAY
        /\ camConnected' = TRUE
        /\ camSubs' = (IF s1 THEN {subscribe_topic} ELSE {})
                          \cup (IF s2 THEN {command_topic} ELSE {})
        /\ camSent' = <<LogPublish("esp32cam: connected")>>

\* loop(), lines 275-278: if (!client.connected()) reconnect();
CamLoopConnect ==
    /\ UNCHANGED <<lisVars, scanVars, recVars, bootVars, pressVars>>
    /\ camPc = "top"
    /\ camPc' = "poll"
    /\ IF ~camConnected
       THEN Reconnect
       ELSE UNCHANGED <<camConnected, camSubs, camMillis, camSent>>
    /\ UNCHANGED <<imageRequested, lastSignalTime, imageCounter, camRuns, camFrame,
                   camIn, camFb, camTriggers, camPolled>>

\* loop(), line 279: client.loop() hands a received message to callback(),
\* if there is one; a disconnected client receives nothing.
CamClientLoop ==
    /\ UNCHANGED <<lisVars, scanVars, recVars, bootVars, pressVars>>
    /\ camPc = "poll"
    /\ camPc' = "capture"
    /\ \/ UNCHANGED <<imageRequested, lastSignalTime, camSent, camIn, camTriggers, camPolled>>
       \/ /\ camConnected
          /\ \E topic \in camSubs \cup {other_topic}, message \in InboundPayloads :
                 Callback(topic, message)
          /\ camPolled' = 1
    /\ UNCHANGED <<camConnected, camSubs, imageCounter, camMillis, camRuns, camFrame, camFb>>

\* Still line 279: the client.loop() call that has handed a message to
\* callback() hands it a further one before it returns.  (PubSubClient reads
\* one packet per call; a client that empties its receive buffer would not.)
CamCallbackAgain ==
    /\ UNCHANGED <<lisVars, scanVars, recVars, bootVars, pressVars>>
    /\ camPc = "capture"
    /\ camConnected
    /\ camPolled >= 1
    /\ camPolled < MaxPerPoll
    /\ camPolled' = camPolled + 1
    /\ \E topic \in camSubs \cup {other_topic}, message \in InboundPayloads :
           Callback(topic, message)
    /\ UNCHANGED <<camPc, camConnected, camSubs, imageCounter, camMillis, camRuns, camFrame,
                   camFb>>

\* A call of esp_camera_fb_get (the n-th of the function, whether it gave a
\* frame) or of esp_camera_fb_return (for the frame of the n-th get).
FbGet(n, given) == [op |-> "get", n |-> n, given |-> given]

FbReturn(n) == [op |-> "return", n |-> n, given |-> TRUE]

\* Lines 129-133: temp_fb = esp_camera_fb_get(); if(temp_fb) esp_camera_fb_return(temp_fb);
RECURSIVE WarmUpEvents(_, _)
WarmUpEvents(warm, i) ==
    IF i > WARMUP_FRAMES
    THEN <<>>
    ELSE <<FbGet(i, warm[i])>> \o (IF warm[i] THEN <<FbReturn(i)>> ELSE <<>>)
             \o WarmUpEvents(warm, i + 1)

\* Mutant: the frame is kept when the client is not connected.
FrameEventsLeak(warm, fb, connected) ==
    WarmUpEvents(warm, 1) \o <<FbGet(WARMUP_FRAMES + 1, fb # NullFrame)>> \o
        ( IF fb = NullFrame THEN <<>>
          ELSE IF ~connected THEN <<>>
          ELSE <<FbReturn(WARMUP_FRAMES + 1)>> )

\* The frame-buffer calls of captureAndSendImage: warm[i] is whether the
\* i-th warm-up get gave a frame, fb is what the get of line 136 gave.
FrameEvents(warm, fb, connected) ==
    WarmUpEvents(warm, 1) \o <<FbGet(WARMUP_FRAMES + 1, fb # NullFrame)>> \o
        ( IF fb = NullFrame THEN <<>>                                  \* line 140
          ELSE IF ~connected THEN <<FbReturn(WARMUP_FRAMES + 1)>>      \* line 149
          ELSE <<FbReturn(WARMUP_FRAMES + 1)>> )                       \* line 198

\* Whether each warm-up get gives a frame: all do, none does, the second does not.
WarmUps ==
    { [i \in 1..WARMUP_FRAMES |-> TRUE],
      [i \in 1..WARMUP_FRAMES |-> FALSE],
      [i \in 1..WARMUP_FRAMES |-> i # 2] }

\* Mutant: imageCounter++ comes before the test of the connection.
CaptureAndSendImageCountsFirst(warm, fb, oks) ==
    /\ camMillis' = camMillis + WARMUP_FRAMES * WARMUP_DELAY
    /\ camFb' = FrameEvents(warm, fb, camConnected)
    /\ IF fb = NullFrame
       THEN /\ camRuns' = Append(camRuns, NoPart)
            /\ UNCHANGED <<imageCounter, camSent, camFrame>>
       ELSE LET imageId == NextImageId(imageCounter)
            IN  /\ imageCounter' = imageId
                /\ IF ~camConnected
                   THEN /\ camRuns' = Append(camRuns, NoPart)
                        /\ UNCHANGED <<camSent, camFrame>>
                   ELSE /\ camSent' = camSent \o PublishSession(fb, imageId, oks)
                        /\ camRuns' = Append(camRuns, imageId)
                        /\ camFrame' = fb

\* void captureAndSendImage(), given the frames esp_camera_fb_get() returns
\* and the results of the publish calls.
CaptureAndSendImage(warm, fb, oks) ==
    /\ camMillis' = camMillis + WARMUP_FRAMES * WARMUP_DELAY
    /\ camFb' = FrameEvents(warm, fb, camConnected)
    /\ IF fb = NullFrame \/ ~camConnected
       THEN /\ camRuns' = Append(camRuns, NoPart)
            /\ UNCHANGED <<imageCounter, camSent, camFrame>>
       ELSE LET imageId == NextImageId(imageCounter)
            IN  /\ imageCounter' = imageId
                /\ camSent' = camSent \o PublishSession(fb, imageId, oks)
                /\ camRuns' = Append(camRuns, imageId)
                /\ camFrame' = fb

\* Mutant: the flag is left set.
CamLoopTestKeepsFlag ==
    /\ UNCHANGED <<lisVars, scanVars, recVars, bootVars, pressVars>>
    /\ camPc = "capture"
    /\ IF imageRequested
       THEN /\ Len(camRuns) < MaxCaptures
            /\ camPc' = "send"
       ELSE camPc' = "timeout"
    /\ camIn' = NoMsg
    /\ camPolled' = 0
    /\ UNCHANGED <<camConnected, camSubs, imageRequested, lastSignalTime, imageCounter,
                   camMillis, camSent, camRuns, camFrame, camFb, camTriggers>>

\* Mutant: the flag is cleared and nothing is captured.
CamLoopTestSkips ==
    /\ UNCHANGED <<lisVars, scanVars, recVars, bootVars, pressVars>>
    /\ camPc = "capture"
    /\ camPc' = "timeout"
    /\ imageRequested' = FALSE
    /\ camIn' = NoMsg
    /\ camPolled' = 0
    /\ UNCHANGED <<camConnected, camSubs, lastSignalTime, imageCounter, camMillis, camSent,
                   camRuns, camFrame, camFb, camTriggers>>

\* loop(), lines 282-283: if (imageRequested) { imageRequested = false;
CamLoopTest ==
    /\ UNCHANGED <<lisVars, scanVars, recVars, bootVars, pressVars>>
    /\ camPc = "capture"
    /\ IF imageRequested
       THEN /\ Len(camRuns) < MaxCaptures
            /\ imageRequested' = FALSE
            /\ camPc' = "send"
       ELSE /\ camPc' = "timeout"
            /\ UNCHANGED imageRequested
    /\ camIn' = NoMsg
    /\ camPolled' = 0
    /\ UNCHANGED <<camConnected, camSubs, lastSignalTime, imageCounter, camMillis, camSent,
                   camRuns, camFrame, camFb, camTriggers>>

\* loop(), line 285: captureAndSendImage();
CamLoopCapture ==
    /\ UNCHANGED <<lisVars, scanVars, recVars, bootVars, pressVars>>
    /\ camPc = "send"
    /\ camPc' = "timeout"
    /\ \E warm \in WarmUps, fb \in Frames \cup {NullFrame} :
           \E oks \in PublishResultsFor(fb) :
               CaptureAndSendImage(warm, fb, oks)
    /\ UNCHANGED <<camConnected, camSubs, imageRequested, lastSignalTime, camIn,
                   camTriggers, camPolled>>

\* loop(), lines 289-291; the pass ends, and with it its history.
CamLoopTimeout ==
    /\ UNCHANGED <<lisVars, scanVars, recVars, bootVars, pressVars>>
    /\ camPc = "timeout"
    /\ camPc' = "top"
    /\ IF lastSignalTime > 0 /\ camMillis - lastSignalTime > SIGNAL_TIMEOUT
       THEN lastSignalTime' = 0
       ELSE UNCHANGED lastSignalTime
    /\ camSent' = <<>>
    /\ camFrame' = NullFrame
    /\ camIn' = NoMsg
    /\ camFb' = <<>>
    /\ camTriggers' = 0
    /\ UNCHANGED <<camConnected, camSubs, imageRequested, imageCounter, camMillis, camRuns,
                   camPolled>>

\* The transport loses the connection (and with it the subscriptions of
\* the clean session).
CamDisconnect ==
    /\ UNCHANGED <<lisVars, scanVars, recVars, bootVars, pressVars>>
    /\ camConnected
    /\ camConnected' = FALSE
    /\ camSubs' = {}
    /\ UNCHANGED <<camPc, imageRequested, lastSignalTime, imageCounter, camMillis,
                   camSent, camRuns, camFrame, camIn, camFb, camTriggers, camPolled>>

\* The state when setup() returns: reconnect() has connected the client.
CamInit ==
    /\ camPc = "top"
    /\ camConnected = TRUE
    /\ camSubs \in SUBSET {subscribe_topic, command_topic}
    /\ imageRequested = FALSE
    /\ lastSignalTime = 0
    /\ imageCounter = 0
    /\ camMillis = 0
    /\ camSent = <<>>
    /\ camRuns = <<>>
    /\ camFrame = NullFrame
    /\ camIn = NoMsg
    /\ camFb = <<>>
    /\ camTriggers = 0
    /\ camPolled = 0

CamNext ==
    \/ CamLoopConnect
    \/ CamClientLoop
    \/ CamLoopTest
    \/ CamLoopCapture
    \/ CamLoopTimeout
    \/ CamDisconnect

\* The camera on a connection that holds, with a client that may hand
\* several messages to callback() in one call of client.loop().
CamBurstNext ==
    \/ CamLoopConnect
    \/ CamClientLoop
    \/ CamCallbackAgain
    \/ CamLoopTest
    \/ CamLoopCapture
    \/ CamLoopTimeout

----------------------------------------------------------------------------
(* Program constants of the listener node *)

device_id == "sightception-esp32-001"
topic_signal == "sightception/device/sightception-esp32-001/signal"
topic_logs == "sightception/logs/esp32wroom"

MQTT_RETRY_INTERVAL == 5000
\* #define WAKEWORD_THRESHOLD 0.4, in hundredths
WAKEWORD_THRESHOLD == 40
\* if (wakewordDetected && (millis() - lastDetectionTime > 5000))
DETECTION_EXPIRY == 5000
debounceDelay == 200
\* uint8_t tempBuffer[512]
TEMP_BUFFER_BYTES == 512
\* delay(10) after i2s_zero_dma_buffer
DETECT_SETTLE_MS == 10
\* buzzerPattern(): 3 x (beep 100 + delay 100) + beep 500
BUZZER_PATTERN_MS == 1100
\* buzzerError(): 2 x (delay 200 + delay 200)
BUZZER_ERROR_MS == 800
\* setup() ends with buzzerBeep(100); delay(100); buzzerBeep(100)
SETUP_BEEP_MS == 300
\* setup(): while (WiFi.status() != WL_CONNECTED && wifiAttempts < 20) delay(500);
WIFI_WAIT_MS == 500
WIFI_MAX_ATTEMPTS == 20

\* const int wakewordSamples = EI_CLASSIFIER_RAW_SAMPLE_COUNT;
wakewordSamples == WindowSamples

----------------------------------------------------------------------------
(* Classifier results: result.classification[ix] = (label, value), the     *)
(* value in hundredths.  The label lists are those of possible models.     *)

CategoryLists ==
    { <<"hello", "noise">>,
      <<"hello", "sight", "unknown">>,
      <<"sight", "hello", "noise">>,
      <<"_unknown", "hello", "sight">>,
      <<"background", "noise", "hello">> }

Confidences == {39, 40, 41, 90, 95}

ResultsOf(labels) ==
    { [ix \in 1..Len(labels) |-> [label |-> labels[ix], value |-> v[ix]]] :
        v \in [1..Len(labels) -> Confidences] }

ClassifierResults == UNION {ResultsOf(labels) : labels \in CategoryLists}

\* Mutant: the threshold test admits the threshold itself.
AboveThresholdInclusive(confidence) == confidence >= WAKEWORD_THRESHOLD

\* confidence > WAKEWORD_THRESHOLD
AboveThreshold(confidence) == confidence > WAKEWORD_THRESHOLD

\* label != "noise" && label != "unknown" && label != "_unknown" && label != "background"
NotReserved(label) ==
    label # "noise" /\ label # "unknown" /\ label # "_unknown" /\ label # "background"

\* Mutant: a later label of equal confidence replaces the earlier one.
BetterOrEqual(confidence, maxConfidence) == confidence >= maxConfidence

\* if (confidence > maxConfidence)
Better(confidence, maxConfidence) == confidence > maxConfidence

\* bool wakewordFound = false; float maxConfidence = 0; String detectedLabel = "";
ScanStart == [wakewordFound |-> FALSE, maxConfidence |-> 0, detectedLabel |-> ""]

\* The for loop of lines 315-335 from index ix on, acc holding the three locals.
RECURSIVE ScanLabels(_, _, _)
ScanLabels(result, ix, acc) ==
    IF ix > Len(result)
    THEN acc
    ELSE LET confidence == result[ix].value
             label == result[ix].label
         IN  IF /\ AboveThreshold(confidence)
                /\ NotReserved(label)
                /\ Better(confidence, acc.maxConfidence)
             THEN ScanLabels(result, ix + 1,
                             [wakewordFound |-> TRUE, maxConfidence |-> confidence,
                              detectedLabel |-> label])
             ELSE ScanLabels(result, ix + 1, acc)

\* The scan of a whole result.
Scan(result) == ScanLabels(result, 1, ScanStart)

----------------------------------------------------------------------------
(* The listener's publishes *)

LisLogPublish(text) == [topic |-> topic_logs, payload |-> text]

\* Mutant: the message carries the device only.
SignalPayloadNoTimestamp(now) ==
    [tokens |-> <<"{", "device_id", ":", device_id, "}">>,
     timestamp |-> now]

\* The message of lines 152-155, as its tokens; "#" stands for the digits
\* of String(millis()), kept beside the text.
SignalPayload(now) ==
    [tokens |-> <<"{", "device_id", ":", device_id, ",", "timestamp", ":", "#", "}">>,
     timestamp |-> now]

\* Mutant: a failed publish of the signal is tried once more.
PublishWakeWordSignalRetry(connected, now, ok) ==
    IF ~connected
    THEN <<>>
    ELSE IF ok
         THEN <<[topic |-> topic_signal, payload |-> SignalPayload(now), ok |-> TRUE],
                LisLogPublish("esp32wroom: wakeword signal published")>>
         ELSE <<[topic |-> topic_signal, payload |-> SignalPayload(now), ok |-> FALSE],
                [topic |-> topic_signal, payload |-> SignalPayload(now), ok |-> FALSE],
                LisLogPublish("esp32wroom: wakeword signal publish failed")>>

\* void publishWakeWordSignal(): the publish calls it makes, given
\* client.connected(), millis() and what client.publish returns.
PublishWakeWordSignal(connected, now, ok) ==
    IF ~connected
    THEN <<>>
    ELSE <<[topic |-> topic_signal, payload |-> SignalPayload(now), ok |-> ok],
           LisLogPublish(IF ok THEN "esp32wroom: wakeword signal published"
                               ELSE "esp32wroom: wakeword signal publish failed")>>

----------------------------------------------------------------------------
(* performWakewordDetection *)

NoCycle == [outcome |-> "none", eligible |-> FALSE, connected |-> FALSE]

\* Lines 229-242: the call; the window is cleared and the settle delay runs.
StartDetection(ret) ==
    /\ lisCycles < MaxCycles
    /\ lisCycles' = lisCycles + 1
    /\ lisPc' = "acquire"
    /\ lisRet' = ret
    /\ totalSamples' = 0
    /\ bytesRead' = 0
    /\ emptyReads' = 0
    /\ lisMillis' = lisMillis + DETECT_SETTLE_MS
    /\ lisSent' = <<>>
    /\ lisCycle' = NoCycle

\* What i2s_read may put in bytesRead.
ReadSizes == {0, 1, 2, 4, TEMP_BUFFER_BYTES}

\* Mutant: every sample of the buffer is copied.
SamplesToCopyAll(n, total) == n \div 2

\* int samplesToCopy = min(samplesInBuffer, wakewordSamples - totalSamples);
SamplesToCopy(n, total) ==
    LET samplesInBuffer == n \div 2
    IN  IF samplesInBuffer < wakewordSamples - total
        THEN samplesInBuffer
        ELSE wakewordSamples - total

\* Mutant: a failed cycle clears the detection state.
AbortCycleClearsState(outcome) ==
    /\ lisPc' = lisRet
    /\ lisMillis' = lisMillis + BUZZER_ERROR_MS
    /\ lisCycle' = [outcome |-> outcome, eligible |-> FALSE, connected |-> FALSE]
    /\ bytesRead' = 0
    /\ emptyReads' = 0
    /\ wakewordDetected' = FALSE
    /\ UNCHANGED <<lastDetectionTime, lisSent>>

\* buzzerError(); return;  (lines 248-249 and 306-307).  The locals die.
AbortCycle(outcome) ==
    /\ lisPc' = lisRet
    /\ lisMillis' = lisMillis + BUZZER_ERROR_MS
    /\ lisCycle' = [outcome |-> outcome, eligible |-> FALSE, connected |-> FALSE]
    /\ bytesRead' = 0
    /\ emptyReads' = 0
    /\ UNCHANGED <<wakewordDetected, lastDetectionTime, lisSent>>

\* One turn of the while loop of lines 244-259: i2s_read fails, or returns
\* ESP_OK with n bytes, none when its 100 ms ran out with nothing to give.
\* The time the reads take is left to LisTick.
LisAcquireRead ==
    /\ UNCHANGED <<camVars, scanVars, recVars, bootVars, pressVars>>
    /\ lisPc = "acquire"
    /\ \/ \* result != ESP_OK: buzzerError(); return;
          /\ AbortCycle("read_error")
          /\ UNCHANGED totalSamples
       \/ \E n \in ReadSizes :
             /\ n = 0 => emptyReads < MaxEmptyReads
             /\ bytesRead' = n
             /\ emptyReads' = IF n = 0 THEN emptyReads + 1 ELSE emptyReads
             /\ totalSamples' = IF n = 0 THEN totalSamples        \* continue
                                 ELSE totalSamples + SamplesToCopy(n, totalSamples)
             /\ lisPc' = IF totalSamples' < wakewordSamples THEN "acquire" ELSE "classify"
             /\ UNCHANGED <<lisMillis, lisCycle, wakewordDetected, lastDetectionTime, lisSent>>
    /\ UNCHANGED <<lisRet, lisConnected, mqttConnected, lastMqttAttempt, buttonPressed,
                   lastButtonPress, lisTry, lisCycles>>

\* Whether some label of the result is a wake word above the threshold.
SomeEligible(result) ==
    \E ix \in 1..Len(result) :
        /\ result[ix].value > 40
        /\ result[ix].label \notin {"noise", "unknown", "_unknown", "background"}

\* What the scan of lines 311-335 decides over the classifier's results,
\* each with whether the result held an eligible label.
ScanOutcomes ==
    { [found |-> Scan(result).wakewordFound, eligible |-> SomeEligible(result)] :
        result \in ClassifierResults }

\* Mutant: a detection made while the state is active keeps the earlier time.
LisClassifyKeepsFirst ==
    /\ UNCHANGED <<camVars, scanVars, recVars, bootVars, pressVars>>
    /\ lisPc = "classify"
    /\ \/ \* res != EI_IMPULSE_OK: buzzerError(); return;
          AbortCycle("classifier_error")
       \/ \E scan \in ScanOutcomes, ok \in BOOLEAN :
             /\ lisPc' = lisRet
             /\ bytesRead' = 0
             /\ emptyReads' = 0
             /\ IF scan.found
                THEN /\ wakewordDetected' = TRUE
                     /\ lastDetectionTime' = IF wakewordDetected THEN lastDetectionTime
                                          ELSE lisMillis
                     /\ lisSent' = lisSent \o PublishWakeWordSignal(lisConnected, lisMillis, ok)
                     /\ lisMillis' = lisMillis + BUZZER_PATTERN_MS
                     /\ lisCycle' = [outcome |-> "detected", eligible |-> scan.eligible,
                                     connected |-> lisConnected]
                ELSE /\ lisCycle' = [outcome |-> "no_wakeword", eligible |-> scan.eligible,
                                     connected |-> lisConnected]
                     /\ UNCHANGED <<wakewordDetected, lastDetectionTime, lisSent, lisMillis>>
    /\ UNCHANGED <<lisRet, lisConnected, mqttConnected, lastMqttAttempt, buttonPressed,
                   lastButtonPress, totalSamples, lisTry, lisCycles>>

\* Lines 261-356: run_classifier fails, or returns a result that the scan
\* decides on; ok is what client.publish returns for the signal message.
LisClassify ==
    /\ UNCHANGED <<camVars, scanVars, recVars, bootVars, pressVars>>
    /\ lisPc = "classify"
    /\ \/ \* res != EI_IMPULSE_OK: buzzerError(); return;
          AbortCycle("classifier_error")
       \/ \E scan \in ScanOutcomes, ok \in BOOLEAN :
             /\ lisPc' = lisRet
             /\ bytesRead' = 0
             /\ emptyReads' = 0
             /\ IF scan.found
                THEN /\ wakewordDetected' = TRUE
                     /\ lastDetectionTime' = lisMillis
                     /\ lisSent' = lisSent \o PublishWakeWordSignal(lisConnected, lisMillis, ok)
                     /\ lisMillis' = lisMillis + BUZZER_PATTERN_MS
                     /\ lisCycle' = [outcome |-> "detected", eligible |-> scan.eligible,
                                     connected |-> lisConnected]
                ELSE /\ lisCycle' = [outcome |-> "no_wakeword", eligible |-> scan.eligible,
                                     connected |-> lisConnected]
                     /\ UNCHANGED <<wakewordDetected, lastDetectionTime, lisSent, lisMillis>>
    /\ UNCHANGED <<lisRet, lisConnected, mqttConnected, lastMqttAttempt, buttonPressed,
                   lastButtonPress, totalSamples, lisTry, lisCycles>>

----------------------------------------------------------------------------
(* The listener node's loop() *)

\* Line 785: server.handleClient() serves no request, one that changes
\* nothing of the detection state ("/", "/wakeword_status"), or
\* "/test_wakeword", which runs a detection cycle.
LisHandleClient ==
    /\ UNCHANGED <<camVars, scanVars, recVars, bootVars, pressVars>>
    /\ lisPc = "web"
    /\ \/ /\ lisPc' = "mqtt"
          /\ UNCHANGED <<lisRet, totalSamples, bytesRead, emptyReads, lisMillis, lisSent,
                         lisCycle, lisCycles>>
       \/ StartDetection("mqtt")
    /\ UNCHANGED <<lisConnected, mqttConnected, lastMqttAttempt, wakewordDetected,
                   lastDetectionTime, buttonPressed, lastButtonPress, lisTry>>

\* void connectToMQTT(), entered with mqttConnected = flag: WiFi is down,
\* or client.connect succeeds or fails.
ConnectToMQTT(flag) ==
    \/ \* WiFi.status() != WL_CONNECTED: return
       /\ mqttConnected' = flag
       /\ UNCHANGED <<lisConnected, lisSent, lisTry>>
    \/ /\ lisConnected' = TRUE
       /\ mqttConnected' = TRUE
       /\ lisSent' = Append(lisSent, LisLogPublish("esp32wroom: connected"))
       /\ lisTry' = [at |-> lisMillis, ok |-> TRUE, n |-> lisTry.n + 1]
    \/ /\ lisConnected' = FALSE
       /\ mqttConnected' = FALSE
       /\ lisTry' = [at |-> lisMillis, ok |-> FALSE, n |-> lisTry.n + 1]
       /\ UNCHANGED lisSent

\* millis() - lastMqttAttempt > MQTT_RETRY_INTERVAL
RetryDue(now, last) == now - last > MQTT_RETRY_INTERVAL

\* Lines 787-797.
LisLoopMqtt ==
    /\ UNCHANGED <<camVars, scanVars, recVars, bootVars, pressVars>>
    /\ lisPc = "mqtt"
    /\ lisPc' = "button"
    /\ LET \* if (!client.connected() && mqttConnected) mqttConnected = false;
           flag == IF ~lisConnected /\ mqttConnected THEN FALSE ELSE mqttConnected
       IN  IF ~lisConnected /\ RetryDue(lisMillis, lastMqttAttempt)
           THEN /\ ConnectToMQTT(flag)
                /\ lastMqttAttempt' = lisMillis
           ELSE \* else if (client.connected()) client.loop(); nothing is subscribed
                /\ mqttConnected' = flag
                /\ UNCHANGED <<lisConnected, lastMqttAttempt, lisSent, lisTry>>
    /\ UNCHANGED <<lisRet, wakewordDetected, lastDetectionTime, buttonPressed,
                   lastButtonPress, totalSamples, bytesRead, emptyReads, lisMillis,
                   lisCycle, lisCycles>>

\* Mutant: the flag is cleared before it is tested.
LisLoopButtonClearFirst ==
    /\ UNCHANGED <<camVars, scanVars, recVars, bootVars, pressVars>>
    /\ lisPc = "button"
    /\ buttonPressed' = FALSE
    /\ lisPc' = IF buttonPressed' THEN "clear" ELSE "expiry"
    /\ UNCHANGED <<lisRet, lisConnected, mqttConnected, lastMqttAttempt, wakewordDetected,
                   lastDetectionTime, lastButtonPress, totalSamples,
                   bytesRead, emptyReads, lisTry, lisMillis, lisSent, lisCycle, lisCycles>>

\* Line 799: if (buttonPressed)
LisLoopButton ==
    /\ UNCHANGED <<camVars, scanVars, recVars, bootVars, pressVars>>
    /\ lisPc = "button"
    /\ lisPc' = IF buttonPressed THEN "clear" ELSE "expiry"
    /\ UNCHANGED <<lisRet, lisConnected, mqttConnected, lastMqttAttempt, wakewordDetected,
                   lastDetectionTime, buttonPressed, lastButtonPress, totalSamples,
                   bytesRead, emptyReads, lisTry, lisMillis, lisSent, lisCycle, lisCycles>>

\* Mutant: the flag is left set when the cycle starts.
LisButtonClearKeepsFlag ==
    /\ UNCHANGED <<camVars, scanVars, recVars, bootVars>>
    /\ lisPc = "clear"
    /\ StartDetection("expiry")
    /\ buttonCycles' = buttonCycles + 1
    /\ UNCHANGED <<lisConnected, mqttConnected, lastMqttAttempt, wakewordDetected,
                   lastDetectionTime, buttonPressed, lastButtonPress, lisTry, isrAccepted>>

\* Lines 800-802: buttonPressed = false; performWakewordDetection();
LisButtonClear ==
    /\ UNCHANGED <<camVars, scanVars, recVars, bootVars>>
    /\ lisPc = "clear"
    /\ buttonPressed' = FALSE
    /\ StartDetection("expiry")
    /\ buttonCycles' = buttonCycles + 1
    /\ UNCHANGED isrAccepted
    /\ UNCHANGED <<lisConnected, mqttConnected, lastMqttAttempt, wakewordDetected,
                   lastDetectionTime, lastButtonPress, lisTry>>

\* Mutant: the state expires at the interval itself.
ExpiredInclusive(now, last) == now - last >= DETECTION_EXPIRY

\* millis() - lastDetectionTime > 5000
Expired(now, last) == now - last > DETECTION_EXPIRY

\* Lines 805-810; the pass ends, and with it its history.
LisLoopExpiry ==
    /\ UNCHANGED <<camVars, scanVars, recVars, bootVars, pressVars>>
    /\ lisPc = "expiry"
    /\ lisPc' = "web"
    /\ wakewordDetected' = IF wakewordDetected /\ Expired(lisMillis, lastDetectionTime)
                            THEN FALSE
                            ELSE wakewordDetected
    /\ lisSent' = <<>>
    /\ lisCycle' = NoCycle
    /\ lisTry' = [lisTry EXCEPT !.n = 0]
    /\ UNCHANGED <<lisRet, lisConnected, mqttConnected, lastMqttAttempt, lastDetectionTime,
                   buttonPressed, lastButtonPress, totalSamples, bytesRead, emptyReads,
                   lisMillis, lisCycles>>

\* void IRAM_ATTR buttonISR(), at any point of the loop.
ButtonISR ==
    /\ UNCHANGED <<camVars, scanVars, recVars, bootVars>>
    /\ IF lisMillis - lastButtonPress > debounceDelay
       THEN /\ buttonPressed' = TRUE
            /\ lastButtonPress' = lisMillis
            /\ isrAccepted' = IF isrAccepted < MaxCycles THEN isrAccepted + 1
                                                           ELSE isrAccepted
       ELSE UNCHANGED <<buttonPressed, lastButtonPress, isrAccepted>>
    /\ UNCHANGED buttonCycles
    /\ UNCHANGED <<lisPc, lisRet, lisConnected, mqttConnected, lastMqttAttempt,
                   wakewordDetected, lastDetectionTime, totalSamples, bytesRead, emptyReads,
                   lisTry, lisMillis, lisSent, lisCycle, lisCycles>>

\* The transport loses the connection.
LisDisconnect ==
    /\ UNCHANGED <<camVars, scanVars, recVars, bootVars, pressVars>>
    /\ lisConnected
    /\ lisConnected' = FALSE
    /\ UNCHANGED <<lisPc, lisRet, mqttConnected, lastMqttAttempt, wakewordDetected,
                   lastDetectionTime, buttonPressed, lastButtonPress, totalSamples,
                   bytesRead, emptyReads, lisTry, lisMillis, lisSent, lisCycle, lisCycles>>

\* Time passes.  With the 1100 ms of the success pattern, a step of 3900
\* brings a poll exactly 5000 ms after a detection and one of 3901 brings
\* it 5001 ms after.
LisTickSteps == {3900, 3901}

LisTick ==
    /\ UNCHANGED <<camVars, scanVars, recVars, bootVars, pressVars>>
    /\ \E d \in LisTickSteps :
          /\ lisMillis + d <= MaxLisMillis
          /\ lisMillis' = lisMillis + d
    /\ UNCHANGED <<lisPc, lisRet, lisConnected, mqttConnected, lastMqttAttempt,
                   wakewordDetected, lastDetectionTime, buttonPressed, lastButtonPress,
                   totalSamples, bytesRead, emptyReads, lisTry, lisSent, lisCycle, lisCycles>>

\* No client.connect has been called.
NoTry == [at |-> 0 - 1, ok |-> FALSE, n |-> 0]

\* The waits of 500 ms after which WiFi comes up in setup(): at once, after
\* ten, and only when the loop of lines 744-748 has given up.
SetupWifiWaits == {0, 10, WIFI_MAX_ATTEMPTS}

\* setup() has passed its checks: a 16 kHz classifier, the buffer allocated,
\* the file system mounted.
SetupPassed ==
    boot = [frequency |-> 16000, samples |-> wakewordSamples, alloc |-> "ok", mount |-> "ok"]

\* The state when setup() returns, lines 741-782: WiFi came up after `waits`
\* waits or not at all; if it is up, connectToMQTT() has run, and ok is what
\* client.connect returned.  setup() does not write lastMqttAttempt.
LisInit ==
    \E waits \in SetupWifiWaits, wifiUp \in BOOLEAN, ok \in BOOLEAN :
        /\ waits < WIFI_MAX_ATTEMPTS => wifiUp
        /\ ~wifiUp => ~ok
        /\ lisPc = "web"
        /\ lisRet = "expiry"
        /\ lisConnected = ok
        /\ mqttConnected = ok
        /\ lastMqttAttempt = 0
        /\ lisTry = IF wifiUp THEN [at |-> waits * WIFI_WAIT_MS, ok |-> ok, n |-> 0]
                    ELSE NoTry
        /\ wakewordDetected = FALSE
        /\ lastDetectionTime = 0
        /\ buttonPressed = FALSE
        /\ lastButtonPress = 0
        /\ totalSamples = 0
        /\ bytesRead = 0
        /\ emptyReads = 0
        /\ lisMillis = waits * WIFI_WAIT_MS + SETUP_BEEP_MS
        /\ lisSent = <<>>
        /\ lisCycle = NoCycle
        /\ lisCycles = 0
        /\ isrAccepted = 0
        /\ buttonCycles = 0

LisNext ==
    \/ LisHandleClient
    \/ LisLoopMqtt
    \/ LisLoopButton
    \/ LisButtonClear
    \/ LisAcquireRead
    \/ LisClassify
    \/ LisLoopExpiry
    \/ ButtonISR
    \/ LisDisconnect
    \/ LisTick

----------------------------------------------------------------------------
(* The listener's setup().  lisPc is the position in setup(): "validate",  *)
(* "allocate", "mount", "network", "serve"; one of the three endless loops *)
(* "halt_params", "halt_rate", "halt_alloc"; or "web", the first statement *)
(* of loop(), which the Arduino core calls once setup() has returned.      *)

\* EI_CLASSIFIER_FREQUENCY and EI_CLASSIFIER_RAW_SAMPLE_COUNT of the build.
BootFrequencies == {0 - 1, 0, 16000, 48000, 48001}

BootSampleCounts == {0 - 1, 0, wakewordSamples}

\* The highest sample rate setup() accepts, line 713.
I2S_MAX_RATE == 48000

\* One turn of each endless loop: lines 708-709, 716-717 and 724.
HALT_PARAMS_MS == 400
HALT_RATE_MS == 200
HALT_ALLOC_MS == 1000

\* Line 705.
ParamsInvalid(frequency, samples) == frequency <= 0 \/ samples <= 0

\* Mutant: the rate of 48000 Hz is refused as well.
RateTooHighInclusive(frequency) == frequency >= I2S_MAX_RATE

\* Line 713.
RateTooHigh(frequency) == frequency > I2S_MAX_RATE

\* Lines 705-719: the two checks of the classifier's parameters.
SetupValidate ==
    /\ UNCHANGED <<camVars, scanVars, recVars, pressVars>>
    /\ lisPc = "validate"
    /\ lisPc' = IF ParamsInvalid(boot.frequency, boot.samples) THEN "halt_params"
                ELSE IF RateTooHigh(boot.frequency) THEN "halt_rate"
                ELSE "allocate"
    /\ UNCHANGED <<lisRet, lisConnected, mqttConnected, lastMqttAttempt, wakewordDetected,
                   lastDetectionTime, buttonPressed, lastButtonPress, totalSamples,
                   bytesRead, emptyReads, lisTry, lisMillis, lisSent, lisCycle, lisCycles,
                   boot>>

\* Lines 721-725: audioBuffer = malloc(...); if (!audioBuffer) while(1) delay(1000);
SetupAllocate ==
    /\ UNCHANGED <<camVars, scanVars, recVars, pressVars>>
    /\ lisPc = "allocate"
    /\ \E given \in BOOLEAN :
          /\ boot' = [boot EXCEPT !.alloc = IF given THEN "ok" ELSE "failed"]
          /\ lisPc' = IF given THEN "mount" ELSE "halt_alloc"
    /\ UNCHANGED <<lisRet, lisConnected, mqttConnected, lastMqttAttempt, wakewordDetected,
                   lastDetectionTime, buttonPressed, lastButtonPress, totalSamples,
                   bytesRead, emptyReads, lisTry, lisMillis, lisSent, lisCycle, lisCycles>>

\* Lines 729-733: if (!LittleFS.begin(true)) return;  setup() is over and
\* loop() runs, with no WiFi, no web server and no I2S driver.
SetupMount ==
    /\ UNCHANGED <<camVars, scanVars, recVars, pressVars>>
    /\ lisPc = "mount"
    /\ \E mounted \in BOOLEAN :
          /\ boot' = [boot EXCEPT !.mount = IF mounted THEN "ok" ELSE "failed"]
          /\ lisPc' = IF mounted THEN "network" ELSE "web"
    /\ UNCHANGED <<lisRet, lisConnected, mqttConnected, lastMqttAttempt, wakewordDetected,
                   lastDetectionTime, buttonPressed, lastButtonPress, totalSamples,
                   bytesRead, emptyReads, lisTry, lisMillis, lisSent, lisCycle, lisCycles>>

\* Lines 737-763: setupI2S(), whose failures only print; the wait for WiFi,
\* at most 20 times 500 ms; connectToMQTT() if WiFi is up.
SetupNetwork ==
    /\ UNCHANGED <<camVars, scanVars, recVars, pressVars>>
    /\ lisPc = "network"
    /\ lisPc' = "serve"
    /\ \E waits \in SetupWifiWaits, wifiUp \in BOOLEAN :
          /\ waits < WIFI_MAX_ATTEMPTS => wifiUp
          /\ lisMillis' = lisMillis + waits * WIFI_WAIT_MS
          /\ IF wifiUp
             THEN \/ /\ lisConnected' = TRUE
                     /\ mqttConnected' = TRUE
                     /\ lisSent' = Append(lisSent, LisLogPublish("esp32wroom: connected"))
                     /\ lisTry' = [at |-> lisMillis', ok |-> TRUE, n |-> lisTry.n + 1]
                  \/ /\ lisConnected' = FALSE
                     /\ mqttConnected' = FALSE
                     /\ lisTry' = [at |-> lisMillis', ok |-> FALSE, n |-> lisTry.n + 1]
                     /\ UNCHANGED lisSent
             ELSE UNCHANGED <<lisConnected, mqttConnected, lisSent, lisTry>>
    /\ UNCHANGED <<lisRet, lastMqttAttempt, wakewordDetected, lastDetectionTime,
                   buttonPressed, lastButtonPress, totalSamples, bytesRead, emptyReads,
                   lisCycle, lisCycles, boot>>

\* Lines 765-782: the routes, server.begin(), the two beeps; setup() returns
\* and the first pass of loop() begins, with a history of its own.
SetupServe ==
    /\ UNCHANGED <<camVars, scanVars, recVars, pressVars>>
    /\ lisPc = "serve"
    /\ lisPc' = "web"
    /\ lisMillis' = lisMillis + SETUP_BEEP_MS
    /\ lisSent' = <<>>
    /\ lisTry' = [lisTry EXCEPT !.n = 0]
    /\ UNCHANGED <<lisRet, lisConnected, mqttConnected, lastMqttAttempt, wakewordDetected,
                   lastDetectionTime, buttonPressed, lastButtonPress, totalSamples,
                   bytesRead, emptyReads, lisCycle, lisCycles, boot>>

\* One turn of while(1) at lines 707-710, 715-718 or 724: nothing leaves it.
SetupHalt ==
    /\ UNCHANGED <<camVars, scanVars, recVars, pressVars>>
    /\ lisPc \in {"halt_params", "halt_rate", "halt_alloc"}
    /\ LET turn == IF lisPc = "halt_params" THEN HALT_PARAMS_MS
                   ELSE IF lisPc = "halt_rate" THEN HALT_RATE_MS
                   ELSE HALT_ALLOC_MS
       IN  /\ lisMillis + turn <= MaxLisMillis
           /\ lisMillis' = lisMillis + turn
    /\ UNCHANGED <<lisPc, lisRet, lisConnected, mqttConnected, lastMqttAttempt,
                   wakewordDetected, lastDetectionTime, buttonPressed, lastButtonPress,
                   totalSamples, bytesRead, emptyReads, lisTry, lisSent, lisCycle,
                   lisCycles, boot>>

\* The node at reset: the globals of lines 19-58 and the build's parameters.
SetupInit ==
    /\ boot \in [frequency : BootFrequencies, samples : BootSampleCounts,
                  alloc : {"none"}, mount : {"none"}]
    /\ lisPc = "validate"
    /\ lisRet = "expiry"
    /\ lisConnected = FALSE
    /\ mqttConnected = FALSE
    /\ lastMqttAttempt = 0
    /\ lisTry = NoTry
    /\ wakewordDetected = FALSE
    /\ lastDetectionTime = 0
    /\ buttonPressed = FALSE
    /\ lastButtonPress = 0
    /\ totalSamples = 0
    /\ bytesRead = 0
    /\ emptyReads = 0
    /\ lisMillis = 0
    /\ lisSent = <<>>
    /\ lisCycle = NoCycle
    /\ lisCycles = 0
    /\ isrAccepted = 0
    /\ buttonCycles = 0

SetupNext ==
    \/ SetupValidate
    \/ SetupAllocate
    \/ SetupMount
    \/ SetupNetwork
    \/ SetupServe
    \/ SetupHalt

----------------------------------------------------------------------------
(* The listener's recording handler.  The storage is the quota of the file  *)
(* system, the bytes other files use, and the recording (how many bytes of  *)
(* header and of audio it holds); usedBytes() is the sum of what the files  *)
(* hold.                                                                    *)

RECORD_SAMPLE_RATE == 16000
RECORD_TIME == 1
headerSize == 44
bytesPerSample == 2
\* uint8_t buffer[1024] of handleRecord
RECORD_BUFFER_BYTES == 1024

\* const int totalSamples = RECORD_SAMPLE_RATE * RECORD_TIME;
RecordSamples == RECORD_SAMPLE_RATE * RECORD_TIME

\* const int audioDataSize = totalSamples * bytesPerSample;
audioDataSize == RecordSamples * bytesPerSample

\* const int totalFileSize = headerSize + audioDataSize;
totalFileSize == headerSize + audioDataSize

\* !LittleFS.exists(FILENAME)
NoFile == [header |-> 0 - 1, data |-> 0 - 1]

FileBytes(file) == IF file = NoFile THEN 0 ELSE file.header + file.data

\* LittleFS.usedBytes()
UsedBytes(other, file) == other + FileBytes(file)

\* Mutant: the test of the quota is the wrong way round.
NoRoomReversed(size, available) == size < available

\* if (totalFileSize > availableBytes)
NoRoom(size, available) == size > available

\* Mutant: the file is left where it is.
RemoveRecordingNoop(file) == file

\* LittleFS.remove(FILENAME)
RemoveRecording(file) == NoFile

\* The sizes of the thirteen writes of writeWavHeader, in order.
HeaderWrites == <<4, 4, 4, 4, 4, 2, 2, 4, 4, 2, 2, 4, 4>>

\* bool writeWavHeader(File&, int, int): the writes from the k-th on, the
\* failAt-th writing nothing (failAt = 0: none fails).  Gives what the
\* function returns and the bytes the file has got.
RECURSIVE WriteWavHeader(_, _, _)
WriteWavHeader(k, written, failAt) ==
    IF k > Len(HeaderWrites)
    THEN [ok |-> TRUE, bytes |-> written]
    ELSE IF k = failAt
         THEN [ok |-> FALSE, bytes |-> written]
         ELSE WriteWavHeader(k + 1, written + HeaderWrites[k], failAt)

\* What goes wrong in the recording loop: nothing, or the at-th i2s_read
\* returns an error, or the at-th file.write writes one byte less than asked.
NoFault == [kind |-> "none", at |-> 0]

RecordFaults ==
    {NoFault} \cup [kind : {"read", "write"}, at : {1, 17, 32}]

\* What every i2s_read of a request delivers.
RecordReadSizes == {512, 1000, RECORD_BUFFER_BYTES}

\* The while loop of lines 570-588 from its turn-th turn on.  Gives
\* recordingSuccess and the audio bytes the file has got.
RECURSIVE RecordLoop(_, _, _, _)
RecordLoop(totalBytesRead, turn, n, fault) ==
    IF totalBytesRead >= audioDataSize
    THEN [ok |-> TRUE, bytes |-> totalBytesRead]
    ELSE IF fault.kind = "read" /\ fault.at = turn
         THEN [ok |-> FALSE, bytes |-> totalBytesRead]
         ELSE LET bytesToWrite == IF audioDataSize - totalBytesRead < n
                                  THEN audioDataSize - totalBytesRead
                                  ELSE n
                  bytesWritten == IF fault.kind = "write" /\ fault.at = turn
                                  THEN bytesToWrite - 1
                                  ELSE bytesToWrite
              IN  IF bytesWritten # bytesToWrite
                  THEN [ok |-> FALSE, bytes |-> totalBytesRead + bytesWritten]
                  ELSE RecordLoop(totalBytesRead + bytesWritten, turn + 1, n, fault)

\* No /record request has been served.
NoRequest == [status |-> 0, fault |-> "none", wrote |-> 0, before |-> NoFile]

\* The handler returns: the file is as given, and the response is sent.
RecordDone(status, fault, wrote, file) ==
    /\ recFile' = file
    /\ recLast' = [status |-> status, fault |-> fault, wrote |-> wrote, before |-> recFile]

\* void handleRecord(), given whether LittleFS.open succeeds, which write of
\* the header fails, what the reads deliver and what goes wrong in the loop.
\* Resetting the I2S driver (lines 531-560, 592-594) touches no file.
HandleRecord ==
    /\ UNCHANGED <<camVars, lisVars, scanVars, bootVars, pressVars>>
    /\ UNCHANGED <<fsTotal, fsOther>>
    /\ \E openOk \in BOOLEAN, failAt \in 0..Len(HeaderWrites),
          n \in RecordReadSizes, fault \in RecordFaults :
          LET availableBytes == fsTotal - UsedBytes(fsOther, recFile)
              removed == RemoveRecording(recFile)
              \* availableBytes = totalBytes - LittleFS.usedBytes(); after the remove
              recomputed == fsTotal - UsedBytes(fsOther, removed)
              stops == /\ NoRoom(totalFileSize, availableBytes)
                       /\ recFile # NoFile => NoRoom(totalFileSize, recomputed)
              kept == IF NoRoom(totalFileSize, availableBytes) /\ recFile # NoFile
                      THEN removed
                      ELSE recFile
              header == WriteWavHeader(1, 0, failAt)
              rec == RecordLoop(0, 1, n, fault)
          IN  IF stops
              THEN RecordDone(507, "quota", 0, kept)                 \* lines 508, 512
              ELSE IF ~openOk
              THEN RecordDone(500, "open", 0, kept)                  \* line 520
              ELSE IF ~header.ok                                     \* lines 524-529
              THEN RecordDone(500, "header", header.bytes,
                              RemoveRecording([header |-> header.bytes, data |-> 0]))
              ELSE IF ~rec.ok                                        \* lines 596-601
              THEN RecordDone(500, fault.kind, header.bytes + rec.bytes,
                              RemoveRecording([header |-> header.bytes, data |-> rec.bytes]))
              ELSE RecordDone(200, "none", header.bytes + rec.bytes,
                              [header |-> header.bytes, data |-> rec.bytes])

\* void handleFormat(): LittleFS.format() erases every file, or fails.
HandleFormat ==
    /\ UNCHANGED <<camVars, lisVars, scanVars, bootVars, pressVars>>
    /\ recLast' = NoRequest
    /\ \/ /\ recFile' = NoFile
          /\ fsOther' = 0
       \/ UNCHANGED <<recFile, fsOther>>
    /\ UNCHANGED fsTotal

\* The file systems setup() may mount: the quota, what other files use, and
\* the recording found there: none, a whole one, or a shorter one.
FsTotals == {40000, 65536}

FsOthers == {0, 8192, 30000}

FoundRecordings ==
    {NoFile, [header |-> headerSize, data |-> audioDataSize], [header |-> headerSize, data |-> 1024]}

\* The storage when setup() returns (LittleFS.begin, line 730).
RecInit ==
    /\ fsTotal \in FsTotals
    /\ fsOther \in FsOthers
    /\ recFile \in FoundRecordings
    /\ UsedBytes(fsOther, recFile) <= fsTotal
    /\ recLast = NoRequest

\* An empty file system that no request touches.
RecIdle ==
    /\ RecInit
    /\ fsTotal = 65536
    /\ fsOther = 0
    /\ recFile = NoFile

RecNext ==
    \/ HandleRecord
    \/ HandleFormat

----------------------------------------------------------------------------
(* The label scan on its own: a result is drawn and scanned. *)

NoScan == [wakewordFound |-> FALSE, maxConfidence |-> 0 - 1, detectedLabel |-> ""]

ScanInit ==
    /\ scanIn = <<>>
    /\ scanOut = NoScan

ScanRun ==
    /\ UNCHANGED <<camVars, lisVars, recVars, bootVars, pressVars>>
    /\ scanIn' \in ClassifierResults
    /\ scanOut' = Scan(scanIn')

----------------------------------------------------------------------------
(* Specifications *)

\* The camera node alone: the listener stays as setup() left it when WiFi
\* never came up.
CamAlone == LisInit /\ lisTry = NoTry /\ ScanInit

\* The listener node alone: the camera stays as setup() left it, subscribed.
LisAlone == CamInit /\ camSubs = {subscribe_topic, command_topic} /\ ScanInit

InitCam == CamInit /\ CamAlone /\ RecIdle /\ SetupPassed

InitListener == LisInit /\ LisAlone /\ RecIdle /\ SetupPassed

InitScan == CamAlone /\ LisAlone /\ RecIdle /\ SetupPassed

\* The recording handler alone.
InitRecord == RecInit /\ CamAlone /\ LisAlone /\ SetupPassed

ScanNext == ScanRun

SpecCam == InitCam /\ [][CamNext]_vars

SpecCamBurst == InitCam /\ [][CamBurstNext]_vars

\* The next statement of the camera's loop(), wherever it stands.
CamLoopStep ==
    \/ CamLoopConnect
    \/ CamClientLoop
    \/ CamLoopTest
    \/ CamLoopCapture
    \/ CamLoopTimeout

\* The camera with its loop() running: the Arduino core calls loop() again
\* whenever it returns, and every statement of it that is reached ends.
SpecCamFair == SpecCam /\ WF_vars(CamLoopStep)

SpecListener == InitListener /\ [][LisNext]_vars

\* The listener with its loop() running: the Arduino core calls loop() again
\* whenever it returns, and each statement of loop() that is reached ends
\* (every i2s_read returns within its 100 ms).  The interrupt, the loss of
\* the connection and the web requests come when they come.
LisLoopStep ==
    \/ LisHandleClient
    \/ LisLoopMqtt
    \/ LisLoopButton
    \/ LisButtonClear
    \/ LisAcquireRead
    \/ LisClassify
    \/ LisLoopExpiry

SpecListenerFair == SpecListener /\ WF_vars(LisLoopStep)

SpecScan == InitScan /\ [][ScanNext]_vars

SpecRecord == InitRecord /\ [][RecNext]_vars

\* setup() of the listener alone, from reset to the first statement of loop().
InitSetup == SetupInit /\ LisAlone /\ RecIdle

SpecSetup == InitSetup /\ [][SetupNext]_vars

----------------------------------------------------------------------------
(* What an observer of the broker sees of the camera's current pass *)

\* The publish calls on the image topics, in order.
ImageMsgs == SelectSeq(camSent, LAMBDA m : m.topic.base = publish_topic)

IsStart(m) == m.topic.leaf = "start"

IsChunk(m) == m.topic.leaf = "chunk"

IsEnd(m) == m.topic.leaf = "end"

ChunkMsgs == SelectSeq(ImageMsgs, IsChunk)

\* A transfer session ran in this pass.
SessionRan == ImageMsgs # <<>>

AllPublishesOk == \A i \in 1..Len(ImageMsgs) : ImageMsgs[i].ok

SomeChunkFailed == \E i \in 1..Len(ChunkMsgs) : ~ChunkMsgs[i].ok

\* The image ids of the sessions started so far, oldest first.
SessionIds == SelectSeq(camRuns, LAMBDA id : id # NoPart)

\* ceil(size / 2048)
CeilDiv2048(size) == (size \div 2048) + (IF size % 2048 = 0 THEN 0 ELSE 1)

\* The payloads of the chunk messages indexed 0..total-1, concatenated in
\* index order.
RECURSIVE ConcatChunks(_, _)
ConcatChunks(idx, total) ==
    IF idx >= total
    THEN <<>>
    ELSE LET m == CHOOSE c \in {ChunkMsgs[i] : i \in 1..Len(ChunkMsgs)} : c.topic.idx = idx
         IN  m.payload \o ConcatChunks(idx + 1, total)

----------------------------------------------------------------------------
(* Claims on the chunked transfer *)

\* C1 (as claimed): in a transfer session in which the publish of a chunk
\* message failed, no end message is published.  The code breaks out of the
\* chunk loop and falls through to the publish of the end message.
C1_NoEndAfterFailedChunk ==
    SomeChunkFailed => ~\E i \in 1..Len(ImageMsgs) : IsEnd(ImageMsgs[i]) /\ ImageMsgs[i].ok

\* C2: if the publish of chunk k fails, no chunk with an index greater than
\* k is published in the session and chunk k is not published again.
C2_FailedChunkStopsLoop ==
    \A i \in 1..Len(ChunkMsgs) :
        ~ChunkMsgs[i].ok =>
            \A j \in 1..Len(ChunkMsgs) :
                j # i => /\ j < i
                         /\ ChunkMsgs[j].topic.idx < ChunkMsgs[i].topic.idx

\* C2 witness: chunk 1 of a three-chunk session failed after chunk 0 went out.
C2_Witness ==
    /\ SessionRan
    /\ camFrame.len = 5000
    /\ Len(ChunkMsgs) = 2
    /\ ChunkMsgs[1].ok
    /\ ~ChunkMsgs[2].ok /\ ChunkMsgs[2].topic.idx = 1

\* C3: when every publish of a session succeeds, the chunk payloads
\* concatenated in index order 0..total-1 are the frame's bytes.
C3_ChunkingLossless ==
    (SessionRan /\ AllPublishesOk) =>
        LET total == ImageMsgs[1].payload.total
        IN  /\ \A idx \in 0..(total - 1) :
                   Cardinality({i \in 1..Len(ChunkMsgs) : ChunkMsgs[i].topic.idx = idx}) = 1
            /\ ConcatChunks(0, total) = camFrame.buf

\* C3 witness: a 5000-byte frame went out whole.
C3_Witness ==
    /\ SessionRan /\ AllPublishesOk
    /\ camFrame.len = 5000
    /\ Len(ChunkMsgs) = 3

\* C4: for a payload of size >= 1 the start message announces
\* total = ceil(size / 2048); every chunk but the last carries 2048 bytes and
\* the last carries size - (total-1)*2048 bytes, between 1 and 2048.
C4_ChunkSizes ==
    (SessionRan /\ camFrame.len >= 1) =>
        LET size == camFrame.len
            total == ImageMsgs[1].payload.total
        IN  /\ IsStart(ImageMsgs[1])
            /\ ImageMsgs[1].payload.size = size
            /\ total = CeilDiv2048(size)
            /\ \A i \in 1..Len(ChunkMsgs) :
                   LET idx == ChunkMsgs[i].topic.idx
                       n == Len(ChunkMsgs[i].payload)
                   IN  /\ idx < total
                       /\ idx < total - 1 => n = 2048
                       /\ idx = total - 1 => /\ n = size - (total - 1) * 2048
                                              /\ n >= 1 /\ n <= 2048

\* C4 witness: 5000 bytes went out as chunks of 2048, 2048 and 904 bytes.
C4_Witness ==
    /\ SessionRan
    /\ camFrame.len = 5000
    /\ ImageMsgs[1].payload.total = 3
    /\ Len(ChunkMsgs) = 3
    /\ <<Len(ChunkMsgs[1].payload), Len(ChunkMsgs[2].payload), Len(ChunkMsgs[3].payload)>>
           = <<2048, 2048, 904>>

\* C5: the messages of a session are the start message, then the chunk
\* messages with indices 0, 1, 2, ... in order, then the end message; when
\* every publish succeeds there are exactly total_chunks chunk messages.
C5_SessionOrder ==
    SessionRan =>
        LET n == Len(ImageMsgs)
        IN  /\ n >= 2
            /\ IsStart(ImageMsgs[1])
            /\ IsEnd(ImageMsgs[n])
            /\ \A i \in 2..(n - 1) : IsChunk(ImageMsgs[i]) /\ ImageMsgs[i].topic.idx = i - 2
            /\ AllPublishesOk =>
                   /\ Len(ChunkMsgs) = ImageMsgs[1].payload.total
                   /\ Len(ChunkMsgs) = CeilDiv2048(camFrame.len)

\* C5 witness: a whole three-chunk session: start, chunks 0, 1, 2, end.
C5_Witness ==
    /\ SessionRan /\ AllPublishesOk
    /\ Len(ImageMsgs) = 5
    /\ camFrame.len = 5000

\* C6: every session's image id is greater than the id of every earlier
\* session, and the start, chunk and end messages of a session carry the
\* session's id.
C6_ImageIdMonotonic ==
    /\ \A i \in 1..Len(SessionIds) : \A j \in 1..Len(SessionIds) :
           i < j => SessionIds[i] < SessionIds[j]
    /\ SessionRan =>
           /\ SessionIds # <<>>
           /\ \A i \in 1..Len(ImageMsgs) :
                  /\ ImageMsgs[i].topic.id = SessionIds[Len(SessionIds)]
                  /\ ~IsChunk(ImageMsgs[i]) =>
                         ImageMsgs[i].payload.image_id = SessionIds[Len(SessionIds)]

\* C6 witness: the second session of the run has published its messages.
C6_Witness ==
    /\ SessionRan
    /\ Len(SessionIds) = 2
    /\ Len(ChunkMsgs) >= 1

----------------------------------------------------------------------------
(* Claims on the wake-word decision *)

\* Label ix of the scanned result is eligible: above 0.4 and not reserved.
EligibleAt(ix) ==
    /\ scanIn[ix].value > 40
    /\ scanIn[ix].label \notin {"noise", "unknown", "_unknown", "background"}

\* C7: a label is detected only if it is eligible; when some label is
\* eligible the detected one is the eligible label of greatest confidence,
\* the first of them in the result's order when several share it.
C7_ScanPicksFirstMaxEligible ==
    scanIn # <<>> =>
        /\ scanOut.wakewordFound <=> \E ix \in 1..Len(scanIn) : EligibleAt(ix)
        /\ scanOut.wakewordFound =>
               \E ix \in 1..Len(scanIn) :
                   /\ EligibleAt(ix)
                   /\ scanOut.detectedLabel = scanIn[ix].label
                   /\ scanOut.maxConfidence = scanIn[ix].value
                   /\ \A j \in 1..Len(scanIn) :
                          EligibleAt(j) =>
                              /\ scanIn[j].value <= scanIn[ix].value
                              /\ scanIn[j].value = scanIn[ix].value => j >= ix

\* C7 witness: {hello: 0.9, noise: 0.95} detects hello.
C7_Witness ==
    /\ scanIn = <<[label |-> "hello", value |-> 90], [label |-> "noise", value |-> 95]>>
    /\ scanOut.wakewordFound
    /\ scanOut.detectedLabel = "hello"

\* The publish calls on the wake-event topic among msgs.
SignalCalls(msgs) == Cardinality({i \in 1..Len(msgs) : msgs[i].topic = topic_signal})

\* The classifier of the latest cycle returned a result.
Classified == lisCycle.outcome \in {"detected", "no_wakeword"}

\* C8: a detection cycle whose classification succeeds with no eligible
\* label leaves wakewordDetected and lastDetectionTime as they were and
\* publishes no signal message; nor does the acquisition before it.
C8_NoLabelNoChange ==
    [][ /\ (lisPc = "classify" /\ lisPc' # "classify" /\ Classified' /\ ~lisCycle'.eligible)
            => /\ wakewordDetected' = wakewordDetected
               /\ lastDetectionTime' = lastDetectionTime
               /\ SignalCalls(lisSent') = 0
        /\ lisPc = "acquire"
            => /\ wakewordDetected' = wakewordDetected
               /\ lastDetectionTime' = lastDetectionTime
               /\ SignalCalls(lisSent') = 0 ]_vars

\* C8 witness: a cycle without an eligible label has ended while the state
\* set by an earlier detection is still active.
C8_Witness ==
    /\ lisCycle.outcome = "no_wakeword"
    /\ ~lisCycle.eligible
    /\ wakewordDetected
    /\ lastDetectionTime < lisMillis
    /\ SignalCalls(lisSent) = 0

\* C9 (as claimed): a cycle that finds an eligible label attempts the
\* publish of the signal message exactly once, whatever the connection state.
C9_PublishAttemptedOnce ==
    (Classified /\ lisCycle.eligible) => SignalCalls(lisSent) = 1

\* C9 (amended): a cycle that finds an eligible label attempts the publish
\* of the signal message exactly once if the client is connected, failed or
\* not, and not at all if the client is not connected.
C9_PublishOnceIfConnected ==
    (Classified /\ lisCycle.eligible) =>
        SignalCalls(lisSent) = (IF lisCycle.connected THEN 1 ELSE 0)

\* C9 witness: the one publish of a detection failed and was not repeated.
C9_Witness ==
    /\ Classified /\ lisCycle.eligible /\ lisCycle.connected
    /\ SignalCalls(lisSent) = 1
    /\ \E i \in 1..Len(lisSent) : lisSent[i].topic = topic_signal /\ ~lisSent[i].ok

\* C10: a poll of the loop deactivates an active state exactly when more
\* than 5000 ms have passed since lastDetectionTime, and nothing else
\* deactivates it.
C10_ExpiryAfter5000 ==
    [][ /\ (lisPc = "expiry" /\ lisPc' # "expiry" /\ wakewordDetected)
            => (~wakewordDetected' <=> lisMillis - lastDetectionTime > 5000)
        /\ (wakewordDetected /\ ~wakewordDetected')
            => (lisPc = "expiry" /\ lisMillis - lastDetectionTime > 5000) ]_vars

\* C10 witness: the state was deactivated by the poll 5001 ms after the detection.
C10_Witness ==
    /\ lisPc = "web"
    /\ lisCycles > 0
    /\ lastDetectionTime > 0
    /\ ~wakewordDetected
    /\ lisMillis - lastDetectionTime = 5001

----------------------------------------------------------------------------
(* Claims on the camera's inbound messages and its frame buffers *)

\* The payload contains the text.
Contains(message, text) == \E i \in 1..Len(message) : message[i] = text

\* client.loop() has just handed a message on this topic to callback().
Delivered(topic) == camPc = "poll" /\ camPc' = "capture" /\ camIn'.topic = topic

\* The message set the pending-capture flag and its timestamp.
FlagSet == imageRequested' = TRUE /\ lastSignalTime' = camMillis

FlagUntouched == imageRequested' = imageRequested /\ lastSignalTime' = lastSignalTime

\* C11: a message on the wake-event topic sets imageRequested and
\* lastSignalTime if its payload contains both "device_id" and "timestamp",
\* whatever else it holds, and leaves both as they were if either is missing.
C11_SignalNeedsBothFields ==
    [][ Delivered(subscribe_topic) =>
            IF Contains(camIn'.message, "device_id") /\ Contains(camIn'.message, "timestamp")
            THEN FlagSet
            ELSE FlagUntouched ]_vars

\* C11 witness: a payload that is not JSON but holds both field names has
\* set the flag and the timestamp, late enough for the timestamp to show.
C11_Witness ==
    /\ camPc = "capture"
    /\ camIn = [topic |-> subscribe_topic, message |-> <<"device_id", "timestamp", "garbage">>]
    /\ imageRequested
    /\ camMillis > 0
    /\ lastSignalTime = camMillis

\* C12: a message on the command topic sets imageRequested and
\* lastSignalTime if its payload contains "capture_once" and leaves them as
\* they were if it does not; a message on any other topic than the two the
\* node listens to leaves them as they were.
C12_CommandNeedsToken ==
    [][ /\ Delivered(command_topic) =>
               IF Contains(camIn'.message, "capture_once") THEN FlagSet ELSE FlagUntouched
        /\ (camPc = "poll" /\ camPc' = "capture" /\ camIn' # NoMsg
                /\ camIn'.topic \notin {subscribe_topic, command_topic}) => FlagUntouched ]_vars

\* C12 witness: the command message has set the flag and the timestamp.
C12_Witness ==
    /\ camPc = "capture"
    /\ camIn = [topic |-> command_topic, message |-> <<"{", "action", ":", "capture_once", "}">>]
    /\ imageRequested
    /\ camMillis > 0
    /\ lastSignalTime = camMillis

ReturnsOf(n) == {j \in 1..Len(camFb) : camFb[j].op = "return" /\ camFb[j].n = n}

\* C19: when captureAndSendImage has returned, every esp_camera_fb_get that
\* gave a frame is followed by exactly one esp_camera_fb_return of that
\* frame, and nothing else is returned.
C19_FramesReleasedOnce ==
    /\ \A i \in 1..Len(camFb) :
           (camFb[i].op = "get" /\ camFb[i].given) =>
               /\ Cardinality(ReturnsOf(camFb[i].n)) = 1
               /\ \A j \in ReturnsOf(camFb[i].n) : j > i
    /\ \A j \in 1..Len(camFb) :
           camFb[j].op = "return" =>
               \E i \in 1..(j - 1) :
                   camFb[i].op = "get" /\ camFb[i].given /\ camFb[i].n = camFb[j].n

\* C19 witness: the client was not connected when the frame had been
\* captured; no session started, and the four frames are back.
C19_Witness ==
    /\ camFb # <<>>
    /\ camRuns[Len(camRuns)] = NoPart
    /\ Cardinality({i \in 1..Len(camFb) : camFb[i].op = "get" /\ camFb[i].given}) = 4
    /\ Cardinality({i \in 1..Len(camFb) : camFb[i].op = "return"}) = 4

----------------------------------------------------------------------------
(* Claims on the acquisition of the window and on faults of a cycle *)

\* The classifier of the latest cycle was invoked.
ClassifierRan == lisCycle.outcome \in {"detected", "no_wakeword", "classifier_error"}

\* C16: the count of copied samples never exceeds the window length, and
\* the classifier is invoked only on a window of exactly that many samples,
\* whatever the reads delivered.
C16_ClassifyOnFullWindowOnly ==
    /\ totalSamples <= WindowSamples
    /\ lisPc = "classify" => totalSamples = WindowSamples
    /\ lisPc = "acquire" => totalSamples < WindowSamples
    /\ ClassifierRan => totalSamples = WindowSamples

\* C16 witness: after a read that timed out with nothing, a read of a whole
\* buffer, far longer than what the window lacked, has filled the window.
C16_Witness ==
    /\ lisPc = "classify"
    /\ emptyReads > 0
    /\ bytesRead = 512
    /\ totalSamples = WindowSamples

\* C17 (as claimed): a read that times out without a byte ends the
\* acquisition with an error.  The code goes round the loop again
\* (if (bytesRead == 0) continue;), for as long as the reads stay empty.
C17_TimeoutEndsAcquisition ==
    [][ (lisPc = "acquire" /\ emptyReads' > emptyReads) =>
            (lisPc' # "acquire" /\ lisCycle'.outcome = "read_error") ]_vars

\* The cycle under way was aborted by a fault.
Faulted == lisCycle.outcome \in {"read_error", "classifier_error"}

\* C18: a read error or a classifier failure ends the cycle with
\* wakewordDetected and lastDetectionTime as they were and without a publish
\* on the wake-event topic, and control is back in loop() at the statement
\* after the call.
C18_FaultAbortsCycleOnly ==
    [][ (lisPc \in {"acquire", "classify"} /\ Faulted') =>
            /\ wakewordDetected' = wakewordDetected
            /\ lastDetectionTime' = lastDetectionTime
            /\ SignalCalls(lisSent') = 0
            /\ lisPc' = lisRet
            /\ lisPc' \in {"mqtt", "expiry"} ]_vars

\* C18 witness: a read error ended a cycle while the state set by an
\* earlier detection is still active, and loop() goes on to its expiry test.
C18_Witness ==
    /\ lisCycle.outcome = "read_error"
    /\ lisPc = "expiry"
    /\ wakewordDetected
    /\ lastDetectionTime > 0
    /\ lisCycles = 2

\* C20 (as claimed): client.connect is not called again within 5000 ms of a
\* call that failed, and is called at most once in a pass of loop().  The
\* call made by setup() is not recorded in lastMqttAttempt, and the first
\* pass of loop() may follow a failed one at once.
C20_RetryBackoff ==
    [][ /\ lisTry'.n <= 1
        /\ (lisTry'.n > lisTry.n /\ lisTry.at >= 0 /\ ~lisTry.ok) =>
               lisTry'.at - lisTry.at >= 5000 ]_vars

----------------------------------------------------------------------------
(* Claims on the recording handler *)

\* The latest request found too little room even with the old recording gone.
StillNoRoom == 32044 > fsTotal - fsOther

\* C14 (as claimed): a request that fails for want of room, the recording
\* deleted if there was one, leaves the storage as it was before the request.
\* The code has deleted the recording by the time it finds the room still
\* too small.
C14_NoRoomLeavesStorage ==
    recLast.status = 507 => recFile = recLast.before

\* C14 (amended): a request that needs more bytes than are free even with the
\* recording gone fails with 507 and writes nothing; no file exists when it
\* returns: one that existed has been deleted to make room, and with none
\* before, the storage is as it was.  No other request fails with 507.
C14_NoRoomFailsWithoutWriting ==
    /\ recLast.status = 507 =>
           /\ StillNoRoom
           /\ recLast.wrote = 0
           /\ recFile = NoFile
           /\ recLast.before = NoFile => recFile = recLast.before
    /\ (recLast.status # 0 /\ StillNoRoom) => recLast.status = 507

\* C14 witness: the room was too small even after the recording that was
\* there had been deleted.
C14_Witness ==
    /\ recLast.status = 507
    /\ recLast.before # NoFile
    /\ recFile = NoFile
    /\ 32044 > fsTotal - fsOther

\* C15: when a write of the header, a write of the data or a read of the
\* peripheral fails, the file does not exist when the request returns; when
\* the recording succeeds the file holds 44 bytes of header and
\* samples * 2 bytes of data.
C15_FaultLeavesNoFile ==
    /\ recLast.fault \in {"header", "read", "write"} =>
           /\ recLast.status = 500
           /\ recFile = NoFile
    /\ recLast.status = 200 =>
           /\ recFile # NoFile
           /\ recFile.header = 44
           /\ recFile.data = 16000 * 2
           /\ recLast.wrote = 44 + 16000 * 2

\* C15 witness: a write of the data failed in the middle of the recording,
\* over an older recording, and what had been written is gone.
C15_Witness ==
    /\ recLast.fault = "write"
    /\ recLast.wrote > 44
    /\ recLast.before # NoFile
    /\ recFile = NoFile

----------------------------------------------------------------------------
(* Claims on the listener's startup *)

\* setup() has ended: in one of its endless loops, or by returning.
Halted == lisPc \in {"halt_params", "halt_rate", "halt_alloc"}

InLoop == lisPc = "web"

\* C22 (as claimed): the listener halts at startup, never reaching loop(), if
\* and only if the classifier's frequency or sample count is not positive or
\* the allocation of the sample buffer fails.  setup() also halts on a
\* frequency above 48000 Hz.
C22_HaltsOnTwoConditions ==
    (Halted \/ InLoop) =>
        (Halted <=> (boot.frequency <= 0 \/ boot.samples <= 0 \/ boot.alloc = "failed"))

\* C22 (amended): the listener halts at startup if and only if the
\* frequency or the sample count is not positive, the frequency is above
\* 48000 Hz, or the allocation of the sample buffer fails; a halted node
\* never reaches loop(), and a mount of the file system that fails, or WiFi
\* or the broker out of reach, does not halt it.
C22_HaltsOnThreeConditions ==
    /\ (Halted \/ InLoop) =>
           (Halted <=> ( \/ boot.frequency <= 0
                         \/ boot.samples <= 0
                         \/ boot.frequency > 48000
                         \/ boot.alloc = "failed" ))
    /\ (boot.mount = "failed" /\ ~Halted) => InLoop

\* C22 witness: with a classifier of 48000 Hz and the buffer allocated, the
\* mount failed and loop() runs all the same.
C22_Witness ==
    /\ InLoop
    /\ boot.frequency = 48000
    /\ boot.alloc = "ok"
    /\ boot.mount = "failed"

----------------------------------------------------------------------------
(* Claims on the button: the interrupt handler against loop() *)

\* buttonISR() has run in this step and its debounce test passed.
IsrAccepted == lastButtonPress' # lastButtonPress

\* performWakewordDetection() has been entered from line 802.
ButtonCycleStarts == lisPc = "clear" /\ lisPc' = "acquire" /\ lisCycles' = lisCycles + 1

\* C23: no button trigger is missed.  An interrupt that passes the debounce
\* test leaves the flag set, wherever loop() is; only line 800 clears the
\* flag, on the way into a detection cycle; and with loop() running, a set
\* flag is followed by the start of such a cycle.  (The model starts no
\* cycle beyond MaxCycles, and a request for /test_wakeword may take one.)
C23_NoTriggerMissed ==
    /\ [][ /\ IsrAccepted => buttonPressed'
           /\ (buttonPressed /\ ~buttonPressed') => ButtonCycleStarts ]_vars
    /\ (buttonPressed /\ lisCycles < MaxCycles - 1)
           ~> (lisPc = "acquire" /\ lisRet = "expiry" /\ ~buttonPressed)

\* C23 witness: a second detection cycle has been started by the button,
\* whose interrupt came in the millisecond in which loop() read and cleared
\* the flag.
C23_Witness ==
    /\ lisPc = "acquire"
    /\ lisRet = "expiry"
    /\ lisCycles = 2
    /\ ~buttonPressed
    /\ lastButtonPress = lisMillis - DETECT_SETTLE_MS

\* C25: a detection made while the detection state is active overwrites
\* it: lastDetectionTime becomes the time of the new detection, and the
\* state stays active at every poll that comes no more than 5000 ms after
\* that time, however long ago the first detection was; the one flag and the
\* one time are all there is of the state.
C25_LatestDetectionCounts ==
    [][ /\ (lisPc = "classify" /\ lisCycle'.outcome = "detected") =>
               (wakewordDetected' /\ lastDetectionTime' = lisMillis)
        /\ (lisPc = "expiry" /\ lisPc' = "web" /\ wakewordDetected
               /\ lisMillis - lastDetectionTime <= 5000) => wakewordDetected'
        /\ lastDetectionTime' # lastDetectionTime =>
               (lisPc = "classify" /\ lisCycle'.outcome = "detected") ]_vars

\* C25 witness: detections at 310 ms and at 1420 ms; the poll at 6420 ms,
\* 6110 ms after the first and 5000 ms after the second, left the state
\* active.
C25_Witness ==
    /\ lisPc = "web"
    /\ lisCycles = 2
    /\ wakewordDetected
    /\ lastDetectionTime = SETUP_BEEP_MS + 2 * DETECT_SETTLE_MS + BUZZER_PATTERN_MS
    /\ lisMillis - lastDetectionTime = 5000
    /\ lisMillis - (SETUP_BEEP_MS + DETECT_SETTLE_MS) > 5000

\* C24: no button trigger is duplicated.  The flag goes from clear to set
\* only in a call of buttonISR() that comes more than 200 ms after the last
\* one that set it; a pass of loop() that finds the flag set clears it
\* before its one cycle starts; and the cycles started by the button never
\* outnumber the interrupts that set the flag (a run starts at most MaxCycles
\* cycles, so the interrupts need counting no further).
C24_NoTriggerDuplicated ==
    /\ [](buttonCycles <= isrAccepted)
    /\ [][ /\ (~buttonPressed /\ buttonPressed') =>
                  (lisMillis - lastButtonPress > 200 /\ lastButtonPress' = lisMillis)
           /\ IsrAccepted =>
                  /\ lisMillis - lastButtonPress > 200
                  /\ isrAccepted < MaxCycles => isrAccepted' = isrAccepted + 1
           /\ isrAccepted' # isrAccepted => IsrAccepted
           /\ buttonCycles' # buttonCycles =>
                  (buttonPressed /\ ~buttonPressed' /\ buttonCycles' = buttonCycles + 1) ]_vars

\* C24 witness: two interrupts have set the flag, the second while it was
\* still set from the first, and one cycle has been started for the two.
C24_Witness ==
    /\ isrAccepted = 2
    /\ buttonCycles = 1
    /\ ~buttonPressed
    /\ lisPc = "acquire"

----------------------------------------------------------------------------
(* The listener's signal against the camera's validation *)

\* The positions in lisSent of the publish calls on the wake-event topic.
SignalsSent == {i \in 1..Len(lisSent) : lisSent[i].topic = topic_signal}

\* C26: every signal the listener publishes goes out on the very topic the
\* camera subscribes to, carries both "device_id" and "timestamp", and passes
\* the test callback() applies to it, so that the camera sets its
\* pending-capture flag when it is delivered.
C26_SignalAcceptedByCamera ==
    \A i \in SignalsSent :
        /\ lisSent[i].topic = subscribe_topic
        /\ Contains(lisSent[i].payload.tokens, "device_id")
        /\ Contains(lisSent[i].payload.tokens, "timestamp")
        /\ Accepted(lisSent[i].topic, lisSent[i].payload.tokens)
        /\ lisSent[i].payload.tokens \in InboundPayloads

\* C26 witness: a signal has been published with success, some time into
\* the run.
C26_Witness ==
    \E i \in SignalsSent :
        /\ lisSent[i].ok
        /\ lisSent[i].payload.timestamp > SETUP_BEEP_MS + DETECT_SETTLE_MS

----------------------------------------------------------------------------
(* Claims on the camera's subscriptions and on its capture requests *)

\* reconnect() has returned in this pass and the client is still connected.
ReconnectReturned ==
    /\ camPc = "poll"
    /\ camConnected
    /\ camSent = <<LogPublish("esp32cam: connected")>>

\* C21 (as claimed): whenever reconnect() returns, the node is subscribed to
\* the wake-event topic and to the command topic, after every reconnect.
\* The code calls client.subscribe for both and only prints the result: a
\* subscribe that fails is not repeated, and reconnect() returns all the same.
C21_SubscribedAfterReconnect ==
    ReconnectReturned => camSubs = {subscribe_topic, command_topic}

\* captureAndSendImage() has just run, from line 285.
CaptureRan == camPc = "send" /\ camPc' = "timeout"

\* The esp_camera_fb_get of line 136 gave no frame.
NoFrame(events) ==
    \E i \in 1..Len(events) : events[i] = FbGet(WARMUP_FRAMES + 1, FALSE)

\* C27: a request consumed when the camera gives no frame, or when the
\* client is not connected, is dropped.  The flag stays clear, nothing is
\* published, imageCounter stays as it was; the flag is set again only by a
\* message callback() accepts, and a later pass captures only for a
\* message of its own.
C27_DroppedRequestNotRetried ==
    [][ /\ (CaptureRan /\ (NoFrame(camFb') \/ ~camConnected)) =>
               /\ ~imageRequested'
               /\ imageCounter' = imageCounter
               /\ camSent' = camSent
               /\ camRuns' = Append(camRuns, NoPart)
        /\ (~imageRequested /\ imageRequested') => camTriggers' = camTriggers + 1
        /\ camRuns' # camRuns => (CaptureRan /\ camTriggers >= 1) ]_vars

\* C27 witness: after a session with image id 1, a second request was
\* consumed with the client disconnected and left no trace.
C27_Witness ==
    /\ camPc = "timeout"
    /\ ~camConnected
    /\ ~imageRequested
    /\ camRuns = <<1, NoPart>>
    /\ imageCounter = 1
    /\ ~NoFrame(camFb)
    /\ ImageMsgs = <<>>

\* C28: accepted triggers coalesce.  The flag is set only for messages
\* accepted in the pass under way; a pass in which callback() accepted one
\* message or several goes on to one call of captureAndSendImage(), a pass in
\* which it accepted none goes on to none; so each pass starts at most one
\* capture, and each capture has a trigger of its own pass to account for it.
C28_TriggersCoalesce ==
    /\ [](imageRequested => (camPc = "capture" /\ camTriggers >= 1))
    /\ [][ /\ (camPc = "capture" /\ camPc' # "capture") =>
                  camPc' = (IF camTriggers >= 1 THEN "send" ELSE "timeout")
           /\ camPc' = "send" => (camPc \in {"capture", "send"} /\ ~imageRequested')
           /\ camRuns' # camRuns =>
                  /\ CaptureRan
                  /\ camTriggers >= 1
                  /\ Len(camRuns') = Len(camRuns) + 1
                  /\ camFb = <<>> /\ camFb' # <<>> ]_vars

\* C28 witness: a wake signal and a capture_once command were accepted in
\* one call of client.loop(), and the pass has made its one capture, the
\* second of the run.
C28_Witness ==
    /\ camPc = "timeout"
    /\ camTriggers = 2
    /\ Len(camSent) >= 2
    /\ camSent[1] = AcceptLog(subscribe_topic)
    /\ camSent[2] = AcceptLog(command_topic)
    /\ Len(camRuns) = 2
    /\ ~imageRequested

\* The listener's signal, as client.loop() hands it to callback().
ListenerSignal == [topic |-> topic_signal, message |-> SignalPayload(0).tokens]

\* C29: once the listener's signal has been delivered to the connected
\* camera, with loop() running, captureAndSendImage() is called in that
\* pass (camFb holds the frame calls of the pass); and a call
\* that gets a frame with the client connected starts a session: it advances
\* imageCounter, publishes the start message under the new id, and no earlier
\* session had that id.  (The model makes no call beyond MaxCaptures.)
C29_SignalLeadsToCapture ==
    /\ (camPc = "capture" /\ camIn = ListenerSignal /\ Len(camRuns) < MaxCaptures)
           ~> (camPc = "timeout" /\ camFb # <<>>)
    /\ [][ (CaptureRan /\ ~NoFrame(camFb') /\ camConnected) =>
               /\ imageCounter' = imageCounter + 1
               /\ camRuns' = Append(camRuns, imageCounter')
               /\ \A j \in 1..Len(camRuns) : camRuns[j] # imageCounter'
               /\ \E i \in 1..Len(camSent') :
                      /\ IsStart(camSent'[i])
                      /\ camSent'[i].topic.id = imageCounter' ]_vars

\* C29 witness: the listener's signal has led to the second session of the
\* run, with image id 2.
C29_Witness ==
    /\ camPc = "timeout"
    /\ camSent # <<>>
    /\ camSent[1] = AcceptLog(subscribe_topic)
    /\ camRuns = <<1, 2>>
    /\ imageCounter = 2
    /\ SessionRan

====
